---- MODULE Spec2Model ----
(***************************************************************************)
(* Model of the voice-driven doctor booking assistant                      *)
(* (voice_doctor_appointment): the Streamlit session state, the handler    *)
(* of the "Start Voice Recording" button (show_main_content), the intent   *)
(* extraction (extract_doctor_info) and the directory search               *)
(* (find_doctors, DoctorService.search_doctors, Doctor.from_dict).         *)
(*                                                                         *)
(* Python strings are sequences of one-character strings; Python's None    *)
(* is the one-element sequence None below, which is no string because its  *)
(* element is not a character.  st.session_state is the function ss from   *)
(* key names to values; a key that was never set is not in DOMAIN ss.      *)
(* List indices are Python's (0-based): doctors[i] is At(doctors, i).      *)
(***************************************************************************)
EXTENDS Integers, Sequences, FiniteSets, TLC

VARIABLES
    ss,      \* st.session_state
    pc,      \* where the button handler stands: "idle" (script finished),
             \* "opening", "choice", "confirm" (blocked in ask_voice)
    calls,   \* extractor and gateway calls made so far in the current turn
    shown,   \* the provider last passed to show_doctor_info in the current turn
    heard,   \* what the last ask_voice call of the current turn met, and at
             \* which prompt ("opening", "choice", "confirm")
    llm,     \* the completion the language model returned in the current turn
    raw,     \* the healthcareProviders list the search gateway returned in this turn
    banner,  \* the st.error texts emitted in the current turn, in order
    debug_mode, \* the "Debug mode" checkbox of the sidebar
    found,   \* the find_doctors call of this turn: what search_doctors
             \* returned to it (ingested) and what it returned (doctors)
    coords   \* the point st.map draws in the card of the shown provider

vars == <<ss, pc, calls, shown, heard, llm, raw, banner, debug_mode, found, coords>>

(***************************************************************************)
(* Bounds of the model.                                                    *)
(***************************************************************************)
\* StartTurn and the non-empty answers are taken while messages is shorter.
MaxMessages == 8
\* Longest raw gateway response of SearchSpec.
MaxRaw == 7

(***************************************************************************)
(* Python values.                                                          *)
(***************************************************************************)
None == <<"<None>">>

\* bool(x) of a str-or-None value
Truthy(x) == x # None /\ x # <<>>

IsSpace(c) == c \in {" ", "\n", "\t"}

RECURSIVE LStrip(_)
LStrip(s) == IF s # <<>> /\ IsSpace(Head(s)) THEN LStrip(Tail(s)) ELSE s

RECURSIVE RStrip(_)
RStrip(s) ==
    IF s # <<>> /\ IsSpace(s[Len(s)]) THEN RStrip(SubSeq(s, 1, Len(s) - 1)) ELSE s

\* str.strip()
Strip(s) == RStrip(LStrip(s))

\* str.replace('\n', ' ')
ReplaceNewlines(s) == [i \in 1..Len(s) |-> IF s[i] = "\n" THEN " " ELSE s[i]]

LowerChar(c) ==
    CASE c = "N" -> "n"
      [] c = "Y" -> "y"
      [] c = "E" -> "e"
      [] c = "S" -> "s"
      [] c = "O" -> "o"
      [] c = "B" -> "b"
      [] c = "K" -> "k"
      [] c = "L" -> "l"
      [] c = "I" -> "i"
      [] c = "X" -> "x"
      [] c = "T" -> "t"
      [] OTHER -> c

\* str.lower()
Lower(s) == [i \in 1..Len(s) |-> LowerChar(s[i])]

\* kw in s
Contains(s, kw) ==
    \E i \in 1..(Len(s) - Len(kw) + 1) : SubSeq(s, i, i + Len(kw) - 1) = kw

\* lst[i] with Python's 0-based index
At(lst, i) == lst[i + 1]

\* i is a valid index of lst (the handler never holds a negative index)
InRange(lst, i) == 0 <= i /\ i < Len(lst)

\* lst[:n]
Take(lst, n) == SubSeq(lst, 1, IF Len(lst) < n THEN Len(lst) ELSE n)

\* st.session_state.k = v, del st.session_state.k, st.session_state.get(k, default)
Put(s, k, v) == (k :> v) @@ s
Del(s, k) == [x \in DOMAIN s \ {k} |-> s[x]]
Get(s, k, default) == IF k \in DOMAIN s THEN s[k] ELSE default

(***************************************************************************)
(* Provider records.  A raw record is one element of the gateway's         *)
(* healthcareProviders list; a Doctor is the dataclass of models/doctor.py *)
(* (the fields the dialogue reads).  An id is tagged with its Python type, *)
(* so that str(id) is a conversion.                                        *)
(***************************************************************************)
IntId(n) == [ty |-> "int", v |-> n]

\* The empty string as an id (the default of data.get('id', '')).
EmptyId == [ty |-> "empty"]

\* str(x)
Str(id) == IF id = EmptyId THEN EmptyId ELSE [ty |-> "str", v |-> id.v]

\* data.get(key, default) on a dictionary
DictGet(data, key, default) == IF key \in DOMAIN data THEN data[key] ELSE default

DOCTOLIB_BASE_URL == <<"https://www.doctolib.de">>

\* Doctor.from_dict: every key is read with its default, the id through str().
from_dict(data) ==
    [id                |-> Str(DictGet(data, "id", EmptyId)),
     name              |-> DictGet(data, "name", <<"D", "o", "c", "t", "o", "r">>),
     specialty         |-> DictGet(data, "specialty", <<>>),
     location          |-> DictGet(data, "location", <<>>),
     link              |-> DictGet(data, "link", <<>>),
     profile_image_url |-> DictGet(data, "profile_image_url", None),
     languages         |-> DictGet(data, "languages", <<>>)]

\* Mutant of to_dict: the link is written as the full booking URL.
to_dict_FullLink(d) ==
    [id                |-> d.id,
     name              |-> d.name,
     specialty         |-> d.specialty,
     location          |-> d.location,
     link              |-> DOCTOLIB_BASE_URL \o d.link,
     profile_image_url |-> d.profile_image_url,
     languages         |-> d.languages]

\* Doctor.to_dict
to_dict(d) ==
    [id                |-> d.id,
     name              |-> d.name,
     specialty         |-> d.specialty,
     location          |-> d.location,
     link              |-> d.link,
     profile_image_url |-> d.profile_image_url,
     languages         |-> d.languages]

\* Doctor.booking_url
booking_url(d) == DOCTOLIB_BASE_URL \o d.link

\* Mutant of IsTelehealth: the flag is read at the top level of the record,
\* where it never is, so the default False is returned.
IsTelehealth_WrongKey(doc) == FALSE

\* doc.get("onlineBooking", {}).get("telehealth", False)
IsTelehealth(doc) == doc.onlineBooking.telehealth

\* One pass of the loop body of search_doctors for a record that is kept:
\* the specialty of the query is stripped and stored, the name is cleaned.
ProcessDoc(doc, specialty) ==
    from_dict([id        |-> doc.id,
               name      |-> IF doc.name # <<>>
                             THEN Strip(ReplaceNewlines(doc.name))
                             ELSE doc.name,
               specialty |-> Strip(specialty),
               link      |-> doc.link])

\* The for loop of search_doctors: telehealth records are skipped, the
\* others are processed and appended in the order of the response.
RECURSIVE ProcessDoctors(_, _)
ProcessDoctors(doctors, specialty) ==
    IF doctors = <<>> THEN <<>>
    ELSE IF IsTelehealth(Head(doctors))
         THEN ProcessDoctors(Tail(doctors), specialty)
         ELSE <<ProcessDoc(Head(doctors), specialty)>>
              \o ProcessDoctors(Tail(doctors), specialty)

\* find_doctors' default max_results
max_results == 5

\* Mutant of search_doctors: the response is cut to max_results records
\* before the telehealth records are skipped.
search_doctors_CutFirst(resp, specialty) ==
    IF resp.kind = "error" THEN <<>>
    ELSE ProcessDoctors(Take(resp.healthcareProviders, max_results), specialty)

\* DoctorService.search_doctors: resp is the gateway's answer, either
\* [kind |-> "error"] (requests.RequestException) or
\* [kind |-> "ok", healthcareProviders |-> raw list].
search_doctors(resp, specialty) ==
    IF resp.kind = "error" THEN <<>>
    ELSE ProcessDoctors(resp.healthcareProviders, specialty)

\* Mutant of Truncate: the whole list is returned.
Truncate_Nothing(doctors) == doctors

\* The last step of find_doctors: doctors[:max_results], or [] for none.
Truncate(doctors) == IF doctors # <<>> THEN Take(doctors, max_results) ELSE <<>>

(***************************************************************************)
(* find_doctors.  gw holds what the three directory calls answer in this   *)
(* turn: gw.specialty and gw.location are "ok", "notfound" (ValueError     *)
(* raised by the service) or "error" (requests exception); gw.slug is the  *)
(* slug of the specialty resolved and gw.search the answer of the search.  *)
(*  The result is the list returned, the    *)
(* gateway calls made, and the raw list received (<<>> when none was).     *)
(* Every exception is caught inside find_doctors, which then returns [].   *)
(***************************************************************************)
FindResult(doctors, made, got, ingested) ==
    [doctors |-> doctors, calls |-> made, raw |-> got, ingested |-> ingested]

find_doctors(extracted_info, gw) ==
    IF "none" \in DOMAIN extracted_info
    THEN FindResult(<<>>, {}, <<>>, <<>>)                      \* "No information was extracted"
    ELSE IF extracted_info.location = None
    THEN FindResult(<<>>, {}, <<>>, <<>>)                      \* None.strip(): AttributeError
    ELSE IF Strip(extracted_info.location) = <<>>
    THEN FindResult(<<>>, {}, <<>>, <<>>)                      \* "No location was specified"
    ELSE IF ~Truthy(extracted_info.recommended_specialty)
    THEN FindResult(<<>>, {}, <<>>, <<>>)                      \* "No medical specialty was specified"
    ELSE IF gw.specialty # "ok"
    THEN FindResult(<<>>, {"get_specialty_info"}, <<>>, <<>>)
    ELSE IF gw.location # "ok"
    THEN FindResult(<<>>, {"get_specialty_info", "resolve_location_name"}, <<>>, <<>>)
    ELSE FindResult(Truncate(search_doctors(gw.search, gw.slug)),
                    {"get_specialty_info", "resolve_location_name", "search_doctors"},
                    IF gw.search.kind = "ok" THEN gw.search.healthcareProviders ELSE <<>>,
                    search_doctors(gw.search, gw.slug))

\* The st.error text of find_doctors (lines 504-529), <<>> when it emits
\* none: a ValueError shows its own text, any other exception a fixed text.
\* A failing search is caught inside search_doctors and shows nothing.
SearchErrorText == <<"An error occurred while searching for doctors">>

SearchBanner(text) == <<"(x) ">> \o text

find_doctors_error(extracted_info, gw) ==
    IF "none" \in DOMAIN extracted_info
    THEN SearchBanner(<<"No information was extracted from the input">>)
    ELSE IF extracted_info.location = None
    THEN SearchBanner(SearchErrorText)                     \* AttributeError
    ELSE IF Strip(extracted_info.location) = <<>>
    THEN SearchBanner(<<"No location was specified in your request">>)
    ELSE IF ~Truthy(extracted_info.recommended_specialty)
    THEN SearchBanner(<<"No medical specialty was specified in your request">>)
    ELSE IF gw.specialty = "notfound"
    THEN SearchBanner(<<"No specialties found for '">>
                          \o extracted_info.recommended_specialty \o <<"'">>)
    ELSE IF gw.specialty = "error"
    THEN SearchBanner(SearchErrorText)
    ELSE IF gw.location = "notfound"
    THEN SearchBanner(<<"No results found for location: ">>
                          \o Strip(extracted_info.location))
    ELSE IF gw.location = "error"
    THEN SearchBanner(SearchErrorText)
    ELSE <<>>

(***************************************************************************)
(* extract_doctor_info.  completion is what the model answered: [kind |->  *)
(* "raise"] (the API call fails, or the JSON is no object: the exception   *)
(* leaves the function), [kind |-> "invalid"] (json.JSONDecodeError), or   *)
(* [kind |-> "object", ...] with the four keys (a missing key reads as     *)
(* None).  The result is NoInfo (Python's None) or the intent dictionary.  *)
(***************************************************************************)
NoInfo == [none |-> TRUE]

\* Mutant of NormalizeGender: the value is passed on as it came.
NormalizeGender_KeepAll(gender) == gender

\* Lines 388-390
NormalizeGender(gender) ==
    IF gender # None /\ gender \notin {<<"m", "a", "l", "e">>, <<"f", "e", "m", "a", "l", "e">>}
    THEN None ELSE gender

extract_doctor_info(completion) ==
    IF completion.kind = "invalid" THEN NoInfo
    ELSE IF ~Truthy(completion.recommended_specialty) \/ ~Truthy(completion.location)
    THEN NoInfo
    ELSE [symptom               |-> completion.recommended_specialty,
          recommended_specialty |-> completion.recommended_specialty,
          location              |-> completion.location,
          languages_found       |-> completion.languages_found,
          gender                |-> NormalizeGender(completion.gender)]

(***************************************************************************)
(* Texts of the assistant (main_content.py), one token each.               *)
(***************************************************************************)
MSG_GREETING == <<"Hello! I'm here to help you find the right doctor. Please tell me about your symptoms and location.">>
MSG_NOT_FOUND == <<"I couldn't find any matching doctors. Could you provide more details about what you're looking for?">>
MSG_NO_MORE == <<"I'm sorry, there are no more options available. Please try a different search.">>
MSG_UNCLEAR == <<"I didn't catch that. Please say 'I like it' to book this doctor or 'Next option' to see another option.">>
MSG_CONFIRM_PROMPT == <<"Would you like to book an appointment? Please say yes or no.">>
MSG_NO_DOCTOR_INFO == <<"I'm sorry, I couldn't find the doctor's information. Please try searching again.">>
MSG_DECLINE == <<"No problem! Let me know if you need help with anything else.">>
MSG_NOT_UNDERSTOOD == <<"I couldn't understand your request. Could you please describe your symptoms and location again?">>
MSG_ERROR == <<"I'm sorry, I encountered an error. Please try again.">>

\* confirm_text of the booking branch
ConfirmText(doctor_name, url) ==
    <<"Great! I'll help you book an appointment with Dr. ">> \o doctor_name
    \o <<". Please visit the following link to proceed with your booking: ">> \o url

Msg(role, content) == [role |-> role, content |-> content]

\* Mutant of AddMessage: the entry is inserted at the front of the list.
AddMessage_AtFront(s, role, content) ==
    Put(s, "messages", <<Msg(role, content)>> \o s["messages"])

\* st.session_state.messages.append({"role": role, "content": content})
AddMessage(s, role, content) ==
    Put(s, "messages", Append(s["messages"], Msg(role, content)))

(***************************************************************************)
(* The voice gateway.  heard is what one ask_voice call meets:             *)
(* [kind |-> "raise"] (speech synthesis or recording raises),              *)
(* [kind |-> "stt_error"] (speech_to_text catches an exception and returns *)
(* None) or [kind |-> "text", text |-> t] (the transcription t, stripped). *)
(***************************************************************************)
speech_to_text(h) ==
    IF h.kind = "stt_error" THEN None ELSE Strip(h.text)

(***************************************************************************)
(* The button handler of show_main_content, block by block.  A block maps  *)
(* a machine record m = [ss, calls, shown, heard, llm, raw, found, ctl] to *)
(* the next one; m.ctl tells how the block was left: "run" (fell through),     *)
(* "raise" (an Exception is propagating), "rerun" (st.rerun()), "end" (the *)
(* script reached its end), "choice" / "confirm" (blocked in ask_voice).   *)
(***************************************************************************)
NoDoctor == [none |-> TRUE]
NotSearched == [called |-> FALSE, ingested |-> <<>>, doctors |-> <<>>]
NoCompletion == [kind |-> "none"]
NoAnswer == [at |-> "none", kind |-> "none", text |-> <<>>]

\* voice_service.ask_voice is called at the prompt `at` and meets h.
Hear(m, at, h) ==
    [m EXCEPT !.heard = [at |-> at, kind |-> h.kind,
                         text |-> IF h.kind = "text" THEN h.text ELSE <<>>]]

\* An exception with this text (str(e)) propagates to the except block.
Raise(m, e) == [m EXCEPT !.ctl = "raise", !.exc = e]

\* Texts of the exceptions the handler's own statements raise.
IndexErrorText == <<"list index out of range">>
AttributeErrorText == <<"st.session_state has no attribute 'doctors'">>
KeyErrorText == <<"'current_doctor'">>

\* Lines 154-172: the head of the while loop up to the blocking ask_voice.
LoopHead(m) ==
    IF "doctors" \notin DOMAIN m.ss
       \/ ~InRange(m.ss["doctors"], m.ss["current_doctor_index"])
    THEN Raise(m, IndexErrorText)
    ELSE [m EXCEPT !.shown = At(m.ss["doctors"], m.ss["current_doctor_index"]),
                   !.ctl = "choice"]

\* Lines 212-223 and 268-274: the confirmation prompt, or the fallback message.
BookingBlock(m) ==
    IF Get(m.ss, "ask_for_booking_confirmation", FALSE)
    THEN [m EXCEPT !.ss = AddMessage(
                       Put(Put(m.ss, "ask_for_booking_confirmation", FALSE),
                           "awaiting_booking_confirmation", TRUE),
                       "assistant", MSG_CONFIRM_PROMPT),
                   !.ctl = "confirm"]
    ELSE [m EXCEPT !.ss = Put(AddMessage(m.ss, "assistant", MSG_NOT_UNDERSTOOD),
                              "Initialize", TRUE),
                   !.ctl = "rerun"]

\* Mutant of AfterLoop: current_doctor is left as the turn's search set it.
AfterLoop_KeepPresented(m) == BookingBlock(m)

\* Line 210, after the loop: current_doctor becomes the Doctor at the cursor.
AfterLoop(m) ==
    BookingBlock([m EXCEPT !.ss = Put(m.ss, "current_doctor",
        [kind |-> "Doctor",
         d    |-> At(m.ss["doctors"], m.ss["current_doctor_index"])])])

\* Lines 104-146: the search of a turn and the first candidate.
StoreDoctors(s, doctors) == Put(s, "doctors", doctors)

InitIndex(s) ==
    IF "current_doctor_index" \notin DOMAIN s THEN Put(s, "current_doctor_index", 0) ELSE s

InitializeBlock(m, gw) ==
    IF ~Get(m.ss, "Initialize", TRUE) THEN m
    ELSE
      LET res == find_doctors(m.ss["extracted_info"], gw)
          searched == m.ss["extracted_info"] # NoInfo
          m1 == IF searched
                THEN [m EXCEPT !.ss = StoreDoctors(m.ss, res.doctors),
                               !.banner = IF find_doctors_error(m.ss["extracted_info"], gw) = <<>>
                                          THEN m.banner
                                          ELSE Append(m.banner,
                                                   find_doctors_error(m.ss["extracted_info"], gw)),
                               !.calls = m.calls \cup res.calls,
                               !.raw = res.raw,
                               !.found = [called |-> TRUE, ingested |-> res.ingested,
                                          doctors |-> res.doctors]]
                ELSE m
          s2 == InitIndex(m1.ss)
      IN  IF "doctors" \notin DOMAIN s2
          THEN Raise([m1 EXCEPT !.ss = s2], AttributeErrorText)
          ELSE IF s2["doctors"] # <<>>
          THEN IF ~InRange(s2["doctors"], s2["current_doctor_index"])
               THEN Raise([m1 EXCEPT !.ss = s2], IndexErrorText)
               ELSE [m1 EXCEPT !.ss = Put(Put(s2, "current_doctor",
                                   [kind |-> "dict",
                                    d |-> to_dict(At(s2["doctors"],
                                                     s2["current_doctor_index"]))]),
                                   "awaiting_doctor_choice", TRUE)]
          ELSE [m1 EXCEPT !.ss = AddMessage(s2, "assistant", MSG_NOT_FOUND)]

\* Lines 149-154: entering the choice loop, or passing it by.
ChoiceBlock(m) ==
    IF Get(m.ss, "awaiting_doctor_choice", FALSE)
    THEN LoopHead([m EXCEPT !.ss = Put(m.ss, "Initialize", FALSE)])
    ELSE BookingBlock(m)

(***************************************************************************)
(* The keyword tests of the choice loop (lines 181 and 194) and of the     *)
(* confirmation (line 228), on answer.lower().                             *)
(***************************************************************************)
KW_next == <<"n", "e", "x", "t">>
KW_other == <<"o", "t", "h", "e", "r">>
KW_option == <<"o", "p", "t", "i", "o", "n">>
KW_like == <<"l", "i", "k", "e">>
KW_book == <<"b", "o", "o", "k">>
KW_yes == <<"y", "e", "s">>

IsAdvance(answer_lower) ==
    Contains(answer_lower, KW_next) \/ Contains(answer_lower, KW_other)
    \/ Contains(answer_lower, KW_option)

IsBook(answer_lower) ==
    Contains(answer_lower, KW_like) \/ Contains(answer_lower, KW_book)
    \/ Contains(answer_lower, KW_yes)

\* Mutant of NoMoreOptions: the cursor is left where it was.
NoMoreOptions_KeepCursor(m) ==
    AfterLoop([m EXCEPT !.ss =
        Put(Put(AddMessage(m.ss, "assistant", MSG_NO_MORE),
                "awaiting_doctor_choice", FALSE),
            "Initialize", TRUE)])

\* Mutant of NoMoreOptions: awaiting_doctor_choice is not cleared.
NoMoreOptions_FlagLeft(m) ==
    AfterLoop([m EXCEPT !.ss =
        Put(Put(AddMessage(m.ss, "assistant", MSG_NO_MORE),
                "current_doctor_index", 0),
            "Initialize", TRUE)])

\* Mutant of NoMoreOptions: running out of candidates leads on to the
\* booking confirmation of the last candidate.
NoMoreOptions_OffersBooking(m) ==
    AfterLoop([m EXCEPT !.ss =
        Put(Put(Put(Put(AddMessage(m.ss, "assistant", MSG_NO_MORE),
                        "awaiting_doctor_choice", FALSE),
                    "ask_for_booking_confirmation", TRUE),
                "current_doctor_index", 0),
            "Initialize", TRUE)])

\* Lines 186-192 and 208-209: "next" at the last candidate ends the choice.
NoMoreOptions(m) ==
    AfterLoop([m EXCEPT !.ss =
        Put(Put(Put(AddMessage(m.ss, "assistant", MSG_NO_MORE),
                    "awaiting_doctor_choice", FALSE),
                "current_doctor_index", 0),
            "Initialize", TRUE)])

\* Mutant of Advance: the cursor is not incremented before the loop continues.
Advance_NoIncrement(m) ==
    IF m.ss["current_doctor_index"] + 1 < Len(m.ss["doctors"])
    THEN LoopHead(m)
    ELSE NoMoreOptions(m)

\* Mutant of Advance: "next" at the last candidate starts over at the first
\* one and the loop goes on.
Advance_WrapsAround(m) ==
    IF m.ss["current_doctor_index"] + 1 < Len(m.ss["doctors"])
    THEN LoopHead([m EXCEPT !.ss = Put(m.ss, "current_doctor_index",
                                       m.ss["current_doctor_index"] + 1)])
    ELSE LoopHead([m EXCEPT !.ss = Put(m.ss, "current_doctor_index", 0)])

\* Lines 183-192: "next" with and without a further candidate.
Advance(m) ==
    IF m.ss["current_doctor_index"] + 1 < Len(m.ss["doctors"])
    THEN LoopHead([m EXCEPT !.ss = Put(m.ss, "current_doctor_index",
                                       m.ss["current_doctor_index"] + 1)])
    ELSE NoMoreOptions(m)

\* Lines 194-198: the user takes the candidate.
Book(m) ==
    AfterLoop([m EXCEPT !.ss = Put(Put(m.ss, "awaiting_doctor_choice", FALSE),
                                   "ask_for_booking_confirmation", TRUE)])

\* Mutant of Unclear: the branch does not continue and leaves the loop.
Unclear_LeavesLoop(m) ==
    AfterLoop([m EXCEPT !.ss = Put(AddMessage(m.ss, "assistant", MSG_UNCLEAR),
                                   "Initialize", TRUE)])

\* Lines 200-206: neither keyword set matches.
Unclear(m) == LoopHead([m EXCEPT !.ss = AddMessage(m.ss, "assistant", MSG_UNCLEAR)])

\* Mutant of Classify: the booking keywords are tested first.
Classify_BookFirst(answer_lower) ==
    IF IsBook(answer_lower) THEN "book"
    ELSE IF IsAdvance(answer_lower) THEN "advance"
    ELSE "unclear"

\* Lines 181, 194, 200: the if / elif / else chain on answer_lower.
Classify(answer_lower) ==
    IF IsAdvance(answer_lower) THEN "advance"
    ELSE IF IsBook(answer_lower) THEN "book"
    ELSE "unclear"

\* Mutant of ChoiceStep: the answer is classified but not added to messages.
ChoiceStep_AnswerNotLogged(m, h) ==
    IF h.kind = "raise" THEN Raise(m, h.text)
    ELSE LET answer == speech_to_text(h)
             class == Classify(Lower(answer))
         IN  IF ~Truthy(answer) THEN LoopHead(m)
             ELSE IF class = "advance" THEN Advance(m)
             ELSE IF class = "book" THEN Book(m)
             ELSE Unclear(m)

\* Lines 169-209: one answer in the choice loop.
ChoiceStep(m, h) ==
    IF h.kind = "raise" THEN Raise(m, h.text)
    ELSE LET answer == speech_to_text(h)
             m1 == [m EXCEPT !.ss = AddMessage(m.ss, "user", answer)]
             class == Classify(Lower(answer))
         IN  IF ~Truthy(answer) THEN LoopHead(m)
             ELSE IF class = "advance" THEN Advance(m1)
             ELSE IF class = "book" THEN Book(m1)
             ELSE Unclear(m1)

\* getattr(doctor, attr, default): a dict has no such attribute
GetAttr(doctor, attr, default) ==
    IF doctor.kind = "Doctor" THEN doctor.d[attr] ELSE default

\* Line 237
BookingUrl(doctor_link) ==
    IF doctor_link # <<>> THEN DOCTOLIB_BASE_URL \o doctor_link ELSE <<"#">>

\* Mutant of ConfirmReply: every non-empty answer is taken as a yes.
ConfirmReply_AnyAnswerBooks(s, answer) ==
    IF Truthy(answer)
    THEN IF "current_doctor" \in DOMAIN s
         THEN AddMessage(s, "assistant",
                  ConfirmText(GetAttr(s["current_doctor"], "name", <<"the doctor">>),
                              BookingUrl(GetAttr(s["current_doctor"], "link", <<>>))))
         ELSE AddMessage(s, "assistant", MSG_NO_DOCTOR_INFO)
    ELSE AddMessage(s, "assistant", MSG_DECLINE)

\* Lines 228-257: the message that answers the confirmation.
ConfirmReply(s, answer) ==
    IF Contains(Lower(answer), KW_yes)
    THEN IF "current_doctor" \in DOMAIN s
         THEN AddMessage(s, "assistant",
                  ConfirmText(GetAttr(s["current_doctor"], "name", <<"the doctor">>),
                              BookingUrl(GetAttr(s["current_doctor"], "link", <<>>))))
         ELSE AddMessage(s, "assistant", MSG_NO_DOCTOR_INFO)
    ELSE AddMessage(s, "assistant", MSG_DECLINE)

\* Mutant of ResetBooking: Initialize is not set again.
ResetBooking_InitializeLeft(s) ==
    Del(Put(s, "awaiting_booking_confirmation", FALSE), "current_doctor")

\* Lines 259-262: the reset after an answered confirmation.
ResetBooking(s) ==
    Put(Del(Put(s, "awaiting_booking_confirmation", FALSE), "current_doctor"),
        "Initialize", TRUE)

\* Lines 223-267: one answer to the confirmation prompt.
ConfirmStep(m, h) ==
    IF h.kind = "raise" THEN Raise(m, h.text)
    ELSE LET answer == speech_to_text(h)
             s1 == ConfirmReply(AddMessage(m.ss, "user", answer), answer)
         IN  IF ~Truthy(answer) THEN [m EXCEPT !.ctl = "rerun"]
             ELSE IF "current_doctor" \notin DOMAIN s1
             THEN Raise([m EXCEPT !.ss = s1], KeyErrorText)   \* del of a missing key
             ELSE [m EXCEPT !.ss = ResetBooking(s1), !.ctl = "rerun"]

\* Mutant of StoreExtracted: a failed extraction leaves the intent of the
\* earlier turn in place.
StoreExtracted_KeepStale(s, info) ==
    IF info = NoInfo THEN s ELSE Put(s, "extracted_info", info)

\* Line 102: the extraction and what is stored of it.
StoreExtracted(s, info) == Put(s, "extracted_info", info)

ExtractBlock(m, completion) ==
    IF completion.kind = "raise"
    THEN Raise([m EXCEPT !.calls = m.calls \cup {"extract_doctor_info"},
                         !.llm = completion], completion.text)
    ELSE [m EXCEPT !.ss = StoreExtracted(m.ss, extract_doctor_info(completion)),
                   !.calls = m.calls \cup {"extract_doctor_info"},
                   !.llm = completion]

\* Mutant of HasTranscript: the transcript is tested against None only.
HasTranscript_NotNone(transcript) == transcript # None

\* Line 96: if st.session_state.transcript
HasTranscript(transcript) == Truthy(transcript)

\* Line 278: st.error(f"An error occurred: {str(e)}")
ErrorBanner(e) == <<"An error occurred: ">> \o e

\* Lines 289-295: the "Debug Information" expander drawn after the handler.
DebugExpander(s, debug) ==
    IF debug /\ s["extracted_info"] # NoInfo
    THEN [transcript |-> s["transcript"], extracted_info |-> s["extracted_info"],
          doctor |-> s["doctor"]]
    ELSE NoInfo

\* Lines 87-274: the opening utterance of a turn and all that follows it
\* up to the first ask_voice of the choice loop or of the confirmation.
OpeningStep(m, h, completion, gw) ==
    IF h.kind = "raise" THEN Raise(m, h.text)
    ELSE LET transcript == speech_to_text(h)
             m1 == [m EXCEPT !.ss = Put(m.ss, "transcript", transcript)]
             m2 == [m1 EXCEPT !.ss = AddMessage(m1.ss, "user", transcript)]
             m3 == ExtractBlock(m2, completion)
             m4 == InitializeBlock(m3, gw)
         IN  IF ~HasTranscript(transcript) THEN [m1 EXCEPT !.ctl = "end"]
             ELSE IF m3.ctl = "raise" THEN m3
             ELSE IF m4.ctl = "raise" THEN m4
             ELSE ChoiceBlock(m4)

\* Mutant of Settle: the finally clause is skipped when an exception was
\* handled, so the recording flag stays set after a failed turn.
Settle_NoFinallyOnError(m) ==
    IF m.ctl \in {"choice", "confirm"} THEN m
    ELSE [m EXCEPT !.ss = IF m.ctl = "raise"
                          THEN AddMessage(m.ss, "assistant", MSG_ERROR)
                          ELSE Put(m.ss, "recording", FALSE),
                   !.banner = IF m.ctl = "raise"
                              THEN Append(m.banner, ErrorBanner(m.exc))
                              ELSE m.banner,
                   !.ctl = "idle"]

\* Lines 276-286: except Exception, then finally; a rerun or the end of the
\* script passes through finally alone.  The handler is then done ("idle").
Settle(m) ==
    IF m.ctl \in {"choice", "confirm"} THEN m
    ELSE [m EXCEPT !.ss = Put(IF m.ctl = "raise"
                              THEN AddMessage(m.ss, "assistant", MSG_ERROR)
                              ELSE m.ss,
                              "recording", FALSE),
                   !.banner = IF m.ctl = "raise"
                              THEN Append(m.banner, ErrorBanner(m.exc))
                              ELSE m.banner,
                   !.ctl = "idle"]

(***************************************************************************)
(* What the environment can answer.                                        *)
(***************************************************************************)
Text(t) == [kind |-> "text", text |-> t]

\* ask_voice raises an exception whose str() is e.
Raising(e) == [kind |-> "raise", text |-> e]

\* Texts a gateway's exception may carry.
ExceptionTexts == {<<"Connection timed out">>, <<"401 invalid api key sk-1">>}

\* Opening utterances: a failing capture, a failing or empty transcription,
\* a request.
OpeningHeard ==
    {Raising(e) : e \in ExceptionTexts} \cup
    {[kind |-> "stt_error"], Text(<<" ">>),
     Text(<<"r", "a", "s", "h", " ">>)}

\* Answers in the choice loop and to the confirmation prompt.
AnswerHeard ==
    {Raising(e) : e \in ExceptionTexts} \cup
    {[kind |-> "stt_error"], Text(<<" ">>),
     Text(<<"N", "e", "x", "t", " ">>),
     Text(<<"Y", "e", "s">>),
     Text(<<"n", "o">>),
     Text(<<"B", "o", "o", "k", " ", "o", "t", "h", "e", "r">>)}

Completion(specialty, location, gender) ==
    [kind |-> "object", recommended_specialty |-> specialty, location |-> location,
     languages_found |-> <<"gb">>, gender |-> gender]

S_skin == <<"s", "k", "i", "n">>
S_berlin == <<"B", "e", "r", "l", "i", "n">>

\* Completions of the language model.
LLMOutputs ==
    {Raising(<<"Rate limit reached">>), [kind |-> "invalid"],
     Completion(S_skin, S_berlin, None),
     Completion(None, S_berlin, None),
     Completion(S_skin, <<>>, None),
     Completion(S_skin, <<" ">>, None),
     Completion(<<" ">>, S_berlin, <<"a", "n", "y">>)}

RawName(n) == IF n % 2 = 1 THEN <<"A", "\n", "B", " ">> ELSE <<"C">>
RawLink(n) == IF n % 3 = 0 THEN <<>> ELSE <<"/", "p">>

\* Record n of the directory, telehealth or not.
RawDoc(n, telehealth) ==
    [id |-> IntId(n), name |-> RawName(n), specialty |-> <<"x", "\n">>,
     link |-> RawLink(n), onlineBooking |-> [telehealth |-> telehealth]]

\* Raw responses of the search gateway in Spec: none, one provider, a
\* telehealth record ahead of two providers, and more than max_results.
RawResponses ==
    {<<>>,
     <<RawDoc(1, FALSE)>>,
     <<RawDoc(2, TRUE), RawDoc(1, FALSE), RawDoc(3, FALSE)>>,
     [i \in 1..MaxRaw |-> RawDoc(i, i = 2)]}

\* Raw responses of SearchSpec: every placement of telehealth records in a
\* response of up to MaxRaw records.
WideRawResponses ==
    UNION {{[i \in 1..n |-> RawDoc(i, th[i])] : th \in [1..n -> BOOLEAN]} : n \in 0..MaxRaw}

S_slug == <<" ", "d", "e", "r", "m", " ">>

Answering(resp) ==
    [specialty |-> "ok", slug |-> S_slug, location |-> "ok", search |-> resp]

\* A slug with a line break inside, as the autocomplete gateway may send it.
S_slug_newline == <<"h", "n", "o", "\n", "x", " ">>

\* The slugs the specialty lookup answers with in SearchSpec.
Slugs == {S_slug, S_slug_newline}

\* The gateway answers the lookup with this slug and the search with resp.
AnsweringAs(slug, resp) == [Answering(resp) EXCEPT !.slug = slug]

Failing(specialty, location) ==
    [specialty |-> specialty, slug |-> S_slug, location |-> location,
     search |-> [kind |-> "error"]]

\* What the directory gateway does in one turn.
Gateways(raws) ==
    {Failing("notfound", "ok"), Failing("error", "ok"), Failing("ok", "notfound"),
     Failing("ok", "error"), Answering([kind |-> "error"])}
    \cup {Answering([kind |-> "ok", healthcareProviders |-> r]) : r \in raws}

(***************************************************************************)
(* The map of the provider card (doctor_card.py).  A location is the       *)
(* dictionary of the raw record; a nested value that is no dictionary is   *)
(* [notdict |-> TRUE].  Coordinates in the data are whole numbers and a     *)
(* Python float is counted in halves of that unit, so that the midpoint of *)
(* two of them is exact.  The result is a point or NoCoordinates (None).   *)
(***************************************************************************)
NoCoordinates == [none |-> TRUE]

Point(lat, lng) == [lat |-> lat, lng |-> lng]

\* float(v), in halves
float(v) == v + v

\* (a + b) / 2 of two floats
Midpoint(a, b) == (a + b) \div 2

\* isinstance(v, dict)
IsDict(v) == "notdict" \notin DOMAIN v

\* Mutant of extract_coordinates: the nested gpsPoint is tried before the
\* flat lat/lng.
extract_coordinates_PointFirst(location_data) ==
    LET gps == location_data.gpsPoint
        viewport == location_data.viewport
        ne == viewport.northeast
        sw == viewport.southwest
    IN  IF /\ "gpsPoint" \in DOMAIN location_data
           /\ IsDict(gps)
           /\ "lat" \in DOMAIN gps /\ "lng" \in DOMAIN gps
        THEN Point(float(gps.lat), float(gps.lng))
        ELSE IF "lat" \in DOMAIN location_data /\ "lng" \in DOMAIN location_data
        THEN Point(float(location_data.lat), float(location_data.lng))
        ELSE IF /\ "viewport" \in DOMAIN location_data
                /\ IsDict(viewport)
                /\ "northeast" \in DOMAIN viewport /\ "southwest" \in DOMAIN viewport
                /\ {"lat", "lng"} \subseteq DOMAIN ne
                /\ {"lat", "lng"} \subseteq DOMAIN sw
        THEN Point(Midpoint(float(ne.lat), float(sw.lat)),
                   Midpoint(float(ne.lng), float(sw.lng)))
        ELSE NoCoordinates

\* doctor_card.py lines 98-129: three ifs in a row, each returning when its
\* keys are all there and falling through to the next otherwise.
extract_coordinates(location_data) ==
    LET gps == location_data.gpsPoint
        viewport == location_data.viewport
        ne == viewport.northeast
        sw == viewport.southwest
    IN  IF "lat" \in DOMAIN location_data /\ "lng" \in DOMAIN location_data
        THEN Point(float(location_data.lat), float(location_data.lng))
        ELSE IF /\ "gpsPoint" \in DOMAIN location_data
                /\ IsDict(gps)
                /\ "lat" \in DOMAIN gps /\ "lng" \in DOMAIN gps
        THEN Point(float(gps.lat), float(gps.lng))
        ELSE IF /\ "viewport" \in DOMAIN location_data
                /\ IsDict(viewport)
                /\ "northeast" \in DOMAIN viewport /\ "southwest" \in DOMAIN viewport
                /\ {"lat", "lng"} \subseteq DOMAIN ne
                /\ {"lat", "lng"} \subseteq DOMAIN sw
        THEN Point(Midpoint(float(ne.lat), float(sw.lat)),
                   Midpoint(float(ne.lng), float(sw.lng)))
        ELSE NoCoordinates

\* doctor_card.py lines 378-381 (tab3 of show_doctor_info): the map is drawn
\* for a provider with a non-empty location.
MapPoint(doctor) ==
    IF "location" \in DOMAIN doctor /\ doctor.location # <<>>
    THEN extract_coordinates(doctor.location)
    ELSE NoCoordinates

(***************************************************************************)
(* The state machine.                                                      *)
(***************************************************************************)
\* Lines 58-69: the keys show_main_content sets on the first run of the script.
InitSession ==
    [messages       |-> <<Msg("assistant", MSG_GREETING)>>,
     recording      |-> FALSE,
     doctor         |-> None,
     transcript     |-> <<>>,
     extracted_info |-> NoInfo]

InitWith(debug) ==
    /\ ss = InitSession
    /\ pc = "idle"
    /\ calls = {}
    /\ shown = NoDoctor
    /\ heard = NoAnswer
    /\ llm = NoCompletion
    /\ raw = <<>>
    /\ banner = <<>>
    /\ debug_mode = debug
    /\ found = NotSearched
    /\ coords = NoCoordinates

\* sidebar.py line 57-61: the checkbox is ticked unless the user clears it.
Init == InitWith(TRUE)

\* The session of a user who may have cleared the checkbox.
DebugInit == \E debug \in BOOLEAN : InitWith(debug)

Machine == [ss |-> ss, calls |-> calls, shown |-> shown, heard |-> heard, llm |-> llm,
            raw |-> raw, found |-> found, banner |-> banner, exc |-> <<>>, ctl |-> "run"]

Becomes(m) ==
    /\ ss' = m.ss
    /\ pc' = m.ctl
    /\ calls' = m.calls
    /\ shown' = m.shown
    /\ heard' = m.heard
    /\ llm' = m.llm
    /\ raw' = m.raw
    /\ banner' = m.banner
    /\ debug_mode' = debug_mode
    /\ found' = m.found
    /\ coords' = MapPoint(m.shown)

\* The user presses "Start Voice Recording" (lines 81-82) and a new turn
\* begins: nothing has been called or shown in it yet.
Press ==
    /\ pc = "idle"
    /\ ss' = Put(ss, "recording", TRUE)
    /\ pc' = "opening"
    /\ calls' = {}
    /\ shown' = NoDoctor
    /\ heard' = NoAnswer
    /\ llm' = NoCompletion
    /\ raw' = <<>>
    /\ banner' = <<>>
    /\ debug_mode' = debug_mode
    /\ found' = NotSearched
    /\ coords' = NoCoordinates

StartTurn ==
    /\ Len(ss["messages"]) < MaxMessages
    /\ Press

Opening ==
    /\ pc = "opening"
    /\ \E h \in OpeningHeard, completion \in LLMOutputs, gw \in Gateways(RawResponses) :
          Becomes(Settle(OpeningStep(Hear(Machine, "opening", h), h, completion, gw)))

Choice ==
    /\ pc = "choice"
    /\ \E h \in AnswerHeard :
          /\ Len(ss["messages"]) < MaxMessages \/ h.kind # "text"
          /\ Becomes(Settle(ChoiceStep(Hear(Machine, "choice", h), h)))

Confirm ==
    /\ pc = "confirm"
    /\ \E h \in AnswerHeard :
          /\ Len(ss["messages"]) < MaxMessages \/ h.kind # "text"
          /\ Becomes(Settle(ConfirmStep(Hear(Machine, "confirm", h), h)))

Next == StartTurn \/ Opening \/ Choice \/ Confirm

Spec == Init /\ [][Next]_vars

(***************************************************************************)
(* SearchSpec: the first request of a session, understood and resolved,    *)
(* against every raw response of WideRawResponses.                         *)
(***************************************************************************)
SearchStart ==
    /\ "doctors" \notin DOMAIN ss
    /\ Press

SearchOpening ==
    /\ pc = "opening"
    /\ \E r \in WideRawResponses, slug \in Slugs :
          Becomes(Settle(OpeningStep(Hear(Machine, "opening", Text(<<"r", "a", "s", "h", " ">>)),
                                     Text(<<"r", "a", "s", "h", " ">>),
                                     Completion(S_skin, S_berlin, None),
                                     AnsweringAs(slug, [kind |-> "ok", healthcareProviders |-> r]))))

SearchNext == SearchStart \/ SearchOpening

SearchSpec == Init /\ [][SearchNext]_vars

(***************************************************************************)
(* PureSpec: extract_doctor_info and the Doctor conversions applied to     *)
(* inputs drawn from bounded sets.  llm holds the completion, raw the one  *)
(* record given to Doctor.from_dict, shown the Doctor built of it and      *)
(* found.ingested the dictionary that Doctor.to_dict makes of that Doctor. *)
(***************************************************************************)
S_male == <<"m", "a", "l", "e">>
S_female == <<"f", "e", "m", "a", "l", "e">>

\* Values the model may answer for "gender".
Genders == {None, S_male, S_female, <<"M", "a", "l", "e">>, <<"a", "n", "y">>, <<>>,
            <<"m", "a", "l", "e", " ">>}

PureCompletions ==
    {Completion(S_skin, S_berlin, g) : g \in Genders}
    \cup {Completion(None, S_berlin, S_male), Completion(S_skin, <<>>, S_female),
          [kind |-> "invalid"]}

\* Records given to Doctor.from_dict: with an int or str id or none, with
\* and without the optional keys.
PureRecords ==
    {[id |-> IntId(7), name |-> <<"A">>, link |-> <<"/", "p">>],
     [id |-> Str(IntId(7)), name |-> <<"A">>, link |-> <<>>,
      specialty |-> <<"d", "e", "r", "m">>, languages |-> <<"de", "gb">>],
     [name |-> <<"A">>, specialty |-> None, languages |-> <<"de">>,
      location |-> [address |-> <<"x">>]],
     [id |-> IntId(8), link |-> <<"/", "q">>, profile_image_url |-> <<"u">>,
      languages |-> <<>>, onlineBooking |-> [telehealth |-> FALSE]],
     [link |-> <<"/", "p">>],
     RawDoc(1, FALSE), RawDoc(3, FALSE),
     to_dict(from_dict(RawDoc(2, FALSE)))}

\* The flat coordinates of a location: none, one of the two, both.
FlatParts == {<<>>, [lat |-> 1], [lng |-> 2], [lat |-> 1, lng |-> 2]}

\* Its gpsPoint: absent, no dictionary, incomplete, complete.
PointParts ==
    {<<>>, [gpsPoint |-> [notdict |-> TRUE]], [gpsPoint |-> [lat |-> 3]],
     [gpsPoint |-> [lat |-> 3, lng |-> 4]]}

\* Its viewport: absent, no dictionary, one corner, a corner without lng,
\* both corners.
BoxParts ==
    {<<>>, [viewport |-> [notdict |-> TRUE]],
     [viewport |-> [northeast |-> [lat |-> 5, lng |-> 7]]],
     [viewport |-> [northeast |-> [lat |-> 5, lng |-> 7], southwest |-> [lat |-> 6]]],
     [viewport |-> [northeast |-> [lat |-> 5, lng |-> 7],
                    southwest |-> [lat |-> 6, lng |-> 10]]]}

\* Records whose location carries every combination of the three sources.
LocatedRecords ==
    {[id |-> IntId(7), name |-> <<"A">>,
      location |-> flat @@ point @@ box @@ [address |-> <<"x">>]] :
        flat \in FlatParts, point \in PointParts, box \in BoxParts}

PureInit ==
    /\ ss = InitSession
    /\ pc = "pure"
    /\ calls = {}
    /\ shown = NoDoctor
    /\ heard = NoAnswer
    /\ llm \in PureCompletions
    /\ raw \in {<<r>> : r \in PureRecords \cup LocatedRecords}
    /\ banner = <<>>
    /\ debug_mode = TRUE
    /\ found = NotSearched
    /\ coords = NoCoordinates

\* extract_doctor_info is applied to the completion.
PureExtract ==
    /\ pc = "pure"
    /\ pc' = "extracted"
    /\ ss' = Put(ss, "extracted_info", extract_doctor_info(llm))
    /\ calls' = {"extract_doctor_info"}
    /\ UNCHANGED <<shown, heard, llm, raw, banner, debug_mode, found, coords>>

\* Doctor.from_dict is applied to the record.
PureFromDict ==
    /\ pc = "extracted"
    /\ pc' = "built"
    /\ shown' = from_dict(raw[1])
    /\ UNCHANGED <<ss, calls, heard, llm, raw, banner, debug_mode, found, coords>>

\* Doctor.to_dict is applied to the Doctor.
PureToDict ==
    /\ pc = "built"
    /\ pc' = "serialized"
    /\ found' = [found EXCEPT !.ingested = <<to_dict(shown)>>]
    /\ UNCHANGED <<ss, calls, shown, heard, llm, raw, banner, debug_mode, coords>>

\* The map of the provider card is drawn for the Doctor.
PureCoordinates ==
    /\ pc = "serialized"
    /\ pc' = "located"
    /\ coords' = MapPoint(shown)
    /\ UNCHANGED <<ss, calls, shown, heard, llm, raw, banner, debug_mode, found>>

PureNext == PureExtract \/ PureFromDict \/ PureToDict \/ PureCoordinates

PureSpec == PureInit /\ [][PureNext]_vars

\* DebugSpec: the dialogue of Spec with the debug checkbox ticked or cleared.
DebugSpec == DebugInit /\ [][Next]_vars

(***************************************************************************)
(* Properties.                                                             *)
(***************************************************************************)
Candidates == Get(ss, "doctors", <<>>)
Cursor == Get(ss, "current_doctor_index", 0)

\* The step appends messages and the first of them is a user utterance.
UserSaid(a) ==
    /\ Len(ss'["messages"]) > Len(ss["messages"])
    /\ ss'["messages"][Len(ss["messages"]) + 1] = Msg("user", a)

\* The step is an answer of the "next" class given in the choice loop.
SaidNext ==
    /\ pc = "choice"
    /\ \E h \in AnswerHeard :
          /\ h.kind = "text"
          /\ UserSaid(Strip(h.text))
          /\ \E kw \in {KW_next, KW_other, KW_option} : Contains(Lower(h.text), kw)

\* The step appends this assistant message.
Appends(content) ==
    \E i \in (Len(ss["messages"]) + 1)..Len(ss'["messages"]) :
        ss'["messages"][i] = Msg("assistant", content)

\* C1: in every reachable state, whenever candidates is non-empty the cursor
\* is a valid index of it: 0 <= candidateIndex < len(candidates).
C1_CursorInRange ==
    Candidates # <<>> =>
        "current_doctor_index" \in DOMAIN ss /\ InRange(Candidates, Cursor)

\* C2: every search that returns N > 0 providers assigns the new list to
\* candidates, resets the cursor to 0 and brings the session to the choice
\* wait with candidates[0] as the candidate presented.
C2_SearchResetsCursor ==
    [][(pc = "opening" /\ found'.called /\ found'.doctors # <<>>) =>
          /\ ss'["doctors"] = found'.doctors
          /\ ss'["current_doctor_index"] = 0
          /\ pc' = "choice"
          /\ shown' = At(found'.doctors, 0)]_vars

\* C3: a "next"/"other"/"option" answer given in the choice loop while
\* candidateIndex + 1 < len(candidates) increases the cursor by exactly 1,
\* leaves candidates unchanged, and the cursor stays at most len - 1.
C3_NextAdvancesByOne ==
    [][(SaidNext /\ Cursor + 1 < Len(Candidates)) =>
          /\ ss'["current_doctor_index"] = Cursor + 1
          /\ ss'["doctors"] = Candidates
          /\ ss'["current_doctor_index"] <= Len(ss'["doctors"]) - 1]_vars

\* C3 witness: two "next" answers have moved the cursor to the third candidate.
C3_Witness ==
    /\ pc = "choice"
    /\ Cursor = 2
    /\ Len(ss["messages"]) >= 2
    /\ ss["messages"][Len(ss["messages"])].role = "user"
    /\ Contains(Lower(ss["messages"][Len(ss["messages"])].content), KW_next)
    /\ Contains(Lower(ss["messages"][Len(ss["messages"]) - 1].content), KW_next)

\* C4: a "next" answer at the last candidate leaves the cursor unchanged
\* (it is not set back to 0) and appends the "no more options" message.
C4_NextAtLastKeepsCursor ==
    [][(SaidNext /\ Cursor + 1 = Len(Candidates)) =>
          /\ ss'["current_doctor_index"] = Cursor
          /\ Appends(MSG_NO_MORE)]_vars

\* C4 (amended): a "next" answer at the last candidate appends the "no more
\* options" message and sets the cursor to 0, leaving candidates unchanged.
C4_NextAtLastResetsCursor ==
    [][(SaidNext /\ Cursor + 1 = Len(Candidates)) =>
          /\ ss'["current_doctor_index"] = 0
          /\ ss'["doctors"] = Candidates
          /\ Appends(MSG_NO_MORE)]_vars

\* C4 witness: the last of several candidates was presented, "next" was
\* answered, and the cursor is 0 again.
C4_Witness ==
    /\ pc = "idle"
    /\ Len(Candidates) >= 2
    /\ shown = Candidates[Len(Candidates)]
    /\ Cursor = 0
    /\ ss["messages"][Len(ss["messages"]) - 1] = Msg("assistant", MSG_NO_MORE)

\* C5: after a "next" answer at the last candidate the session stays in the
\* choice wait: awaiting_doctor_choice remains true and the user is asked
\* again about the same candidate.
C5_NextAtLastStaysInChoice ==
    [][(SaidNext /\ Cursor + 1 = Len(Candidates)) =>
          /\ pc' = "choice"
          /\ Get(ss', "awaiting_doctor_choice", FALSE)
          /\ shown' = shown]_vars

\* C5 (amended): after a "next" answer at the last candidate the session
\* leaves the choice wait: awaiting_doctor_choice is false and the turn ends
\* in Idle with Initialize true, so that the next request is searched anew.
C5_NextAtLastLeavesChoice ==
    [][(SaidNext /\ Cursor + 1 = Len(Candidates)) =>
          /\ pc' = "idle"
          /\ ~Get(ss', "awaiting_doctor_choice", TRUE)
          /\ Get(ss', "Initialize", FALSE)
          /\ ~ss'["recording"]]_vars

\* C5 witness: "next" was answered to the only candidate and the turn is over.
C5_Witness ==
    /\ pc = "idle"
    /\ Len(Candidates) = 1
    /\ shown = Candidates[1]
    /\ ~Get(ss, "awaiting_doctor_choice", TRUE)
    /\ \E i \in 1..Len(ss["messages"]) - 1 :
          /\ ss["messages"][i].role = "user"
          /\ Contains(Lower(ss["messages"][i].content), KW_next)
          /\ ss["messages"][i + 1] = Msg("assistant", MSG_NO_MORE)

NotTelehealth(r) == ~r.onlineBooking.telehealth

\* The provider d was made of a record of the raw response that is not
\* flagged telehealth (and of no record that is).
FromInPersonRecord(d) ==
    /\ \E j \in 1..Len(raw) : raw[j].id.v = d.id.v
    /\ \A j \in 1..Len(raw) : raw[j].id.v = d.id.v => NotTelehealth(raw[j])

\* C6: a raw record flagged telehealth never appears in candidates, whatever
\* its position in the response; it is dropped when the response is
\* ingested by search_doctors, before truncation and before any candidate
\* is presented.
C6_NoTelehealthCandidate ==
    found.called =>
        /\ \A i \in 1..Len(found.ingested) : FromInPersonRecord(found.ingested[i])
        /\ \A i \in 1..Len(Candidates) : FromInPersonRecord(Candidates[i])
        /\ shown # NoDoctor => FromInPersonRecord(shown)

\* C6 witness: telehealth records first and third in the response, a
\* provider between them, and a candidate is being presented.
C6_Witness ==
    /\ pc = "choice"
    /\ Len(raw) >= 3
    /\ ~NotTelehealth(raw[1]) /\ NotTelehealth(raw[2]) /\ ~NotTelehealth(raw[3])
    /\ shown = Candidates[1]

\* C7: in every reachable state len(candidates) <= max_results, for every
\* length of the raw gateway response.
C7_AtMostMaxResults == Len(Candidates) <= max_results

\* C7 witness: the response held more than max_results in-person records
\* and candidates holds max_results of them.
C7_Witness ==
    /\ Len(SelectSeq(raw, NotTelehealth)) > max_results
    /\ Len(Candidates) = max_results

\* C8: candidates equals the first max_results elements of the subsequence
\* of non-telehealth records of the raw response, in the order of the
\* response (filtered, then truncated, never re-sorted).
C8_FilterThenTruncateInOrder ==
    found.called =>
        LET want == Take(SelectSeq(raw, NotTelehealth), max_results)
        IN  /\ Len(Candidates) = Len(want)
            /\ \A i \in 1..Len(want) :
                  /\ Candidates[i].id = Str(want[i].id)
                  /\ Candidates[i].link = want[i].link

\* C8 witness: a telehealth record among the first max_results of a longer
\* response, so that cutting first would lose a candidate.
C8_Witness ==
    /\ found.called
    /\ Len(raw) > max_results
    /\ ~NotTelehealth(raw[1])
    /\ Len(Candidates) = max_results

DirectoryCalls == {"get_specialty_info", "resolve_location_name", "search_doctors"}

\* The completion of this turn is an object with no specialty or no location.
IntentLacksField ==
    /\ llm.kind = "object"
    /\ ~Truthy(llm.recommended_specialty) \/ ~Truthy(llm.location)

\* C9: when extract_doctor_info returns None (the intent lacks specialty or
\* location), no call to the directory gateway is made in that turn.
C9_NoIntentNoDirectoryCall ==
    (llm.kind \in {"invalid", "object"} /\ extract_doctor_info(llm) = NoInfo) =>
        calls \cap DirectoryCalls = {}

\* C9 witness: the intent lacks a field in a turn that follows a search
\* which found providers.
C9_Witness ==
    /\ IntentLacksField
    /\ "extract_doctor_info" \in calls
    /\ Candidates # <<>>

\* Texts that name the missing field (the ValueErrors of find_doctors).
ValidationTexts ==
    {<<"No location was specified in your request">>,
     <<"No medical specialty was specified in your request">>}

\* C10: when the extracted intent lacks specialty or location, on any turn,
\* the turn ends in Idle without entering the choice wait or presenting a
\* candidate, and an assistant message naming the missing field is appended.
C10_MissingFieldEndsIdleWithMessage ==
    IntentLacksField =>
        /\ pc = "idle"
        /\ ~Get(ss, "awaiting_doctor_choice", FALSE)
        /\ shown = NoDoctor
        /\ ss["messages"][Len(ss["messages"])].role = "assistant"
        /\ ss["messages"][Len(ss["messages"])].content \in ValidationTexts

\* The ask_voice call recorded in heard returned an empty string or None.
HeardEmpty(h) ==
    \/ h.kind = "stt_error"
    \/ h.kind = "text" /\ Strip(h.text) = <<>>

\* The step is an opening utterance whose transcription is empty or None.
OpeningHeardEmpty ==
    /\ pc = "opening"
    /\ heard'.at = "opening"
    /\ HeardEmpty(heard')

\* Assistant texts that tell the user the utterance was not understood.
NotUnderstoodTexts == {MSG_NOT_UNDERSTOOD, MSG_UNCLEAR}

\* C11: when the transcription of the opening utterance of a turn is empty
\* or None, a "didn't understand" assistant message is appended to messages
\* and the session is in Idle at the end of the turn.
C11_EmptyTranscriptIsAnswered ==
    [][OpeningHeardEmpty =>
          /\ pc' = "idle"
          /\ \E content \in NotUnderstoodTexts : Appends(content)]_vars

\* The session keys of the candidate list, the cursor and the phase flags.
PhaseKeys ==
    {"doctors", "current_doctor_index", "awaiting_doctor_choice",
     "ask_for_booking_confirmation", "awaiting_booking_confirmation", "Initialize"}

\* The step leaves these session keys as they were (set or unset, and equal).
SameKeys(keys) ==
    \A k \in keys :
        /\ (k \in DOMAIN ss') <=> (k \in DOMAIN ss)
        /\ k \in DOMAIN ss => ss'[k] = ss[k]

\* C12: when the transcription of the opening utterance of a turn is empty
\* or None, neither the intent extractor nor any directory gateway is called
\* in that turn, and the candidates, the cursor and the phase flags are
\* unchanged.
C12_EmptyTranscriptCallsNothing ==
    [][OpeningHeardEmpty =>
          /\ calls' = {}
          /\ llm' = NoCompletion
          /\ SameKeys(PhaseKeys)]_vars

\* C12 witness: an empty opening transcription in a session that holds
\* candidates from an earlier search.
C12_Witness ==
    /\ heard.at = "opening"
    /\ HeardEmpty(heard)
    /\ pc = "idle"
    /\ Candidates # <<>>
    /\ calls = {}

AdvanceKeywords == {KW_next, KW_other, KW_option}
BookKeywords == {KW_like, KW_book, KW_yes}

\* The text contains one of the keywords, whatever its case.
HasAny(text, keywords) == \E kw \in keywords : Contains(Lower(text), kw)

\* The step is a non-empty answer given at this prompt.
Answered(at) ==
    /\ pc = at
    /\ heard'.at = at
    /\ heard'.kind = "text"
    /\ Strip(heard'.text) # <<>>

\* C13: in the choice wait, an answer that contains "like", "book" or "yes"
\* and none of "next", "other", "option" moves the session to the booking
\* confirmation wait with current_doctor equal to the candidate at the
\* cursor, and leaves the candidates and the cursor unchanged.
C13_BookSelectsCandidateAtCursor ==
    [][(/\ Answered("choice")
        /\ HasAny(heard'.text, BookKeywords)
        /\ ~HasAny(heard'.text, AdvanceKeywords)) =>
          /\ pc' = "confirm"
          /\ Get(ss', "awaiting_booking_confirmation", FALSE)
          /\ ~Get(ss', "awaiting_doctor_choice", FALSE)
          /\ "current_doctor" \in DOMAIN ss'
          /\ ss'["current_doctor"] = [kind |-> "Doctor", d |-> At(Candidates, Cursor)]
          /\ SameKeys({"doctors", "current_doctor_index"})]_vars

\* C13 witness: the second candidate was taken and is the selected provider.
C13_Witness ==
    /\ pc = "confirm"
    /\ heard.at = "choice"
    /\ HasAny(heard.text, BookKeywords)
    /\ Cursor = 1
    /\ ss["current_doctor"] = [kind |-> "Doctor", d |-> At(Candidates, 1)]

\* The content is the booking message of this provider, whatever its link.
IsBookingMessageFor(content, doctor) ==
    LET prefix == ConfirmText(doctor.name, <<>>)
    IN  /\ Len(content) > Len(prefix)
        /\ SubSeq(content, 1, Len(prefix)) = prefix

\* The step appends the booking message of this provider.
AppendsBookingMessageFor(doctor) ==
    \E i \in (Len(ss["messages"]) + 1)..Len(ss'["messages"]) :
        /\ ss'["messages"][i].role = "assistant"
        /\ IsBookingMessageFor(ss'["messages"][i].content, doctor)

\* The last message of the session.
LastMessage == ss["messages"][Len(ss["messages"])]

\* The last message is a booking message.
EndedWithBooking ==
    /\ LastMessage.role = "assistant"
    /\ Head(LastMessage.content) = Head(ConfirmText(<<>>, <<>>))

\* The step is an opening utterance with a transcript and a valid intent.
OpeningWithIntent ==
    /\ pc = "opening"
    /\ heard'.at = "opening"
    /\ heard'.kind = "text"
    /\ Strip(heard'.text) # <<>>
    /\ llm'.kind = "object"
    /\ extract_doctor_info(llm') # NoInfo

\* C14: in the booking confirmation wait, a non-empty answer containing
\* "yes" (whatever its case) appends the booking-link message of the selected
\* provider, deletes current_doctor and returns the session to Idle, and the
\* turn that follows starts a new request with a fresh search.
C14_YesBooksAndResets ==
    [][/\ (Answered("confirm") /\ HasAny(heard'.text, {KW_yes})) =>
              /\ AppendsBookingMessageFor(ss["current_doctor"].d)
              /\ "current_doctor" \notin DOMAIN ss'
              /\ pc' = "idle"
              /\ ~Get(ss', "awaiting_booking_confirmation", FALSE)
              /\ ~Get(ss', "awaiting_doctor_choice", FALSE)
              /\ Get(ss', "Initialize", TRUE)
       /\ (EndedWithBooking /\ OpeningWithIntent) => found'.called]_vars

\* C14 witness: a booking was confirmed and the turn after it searched again.
C14_Witness ==
    /\ \E i \in 1..Len(ss["messages"]) :
          /\ ss["messages"][i].role = "assistant"
          /\ Head(ss["messages"][i].content) = Head(ConfirmText(<<>>, <<>>))
          /\ i < Len(ss["messages"])
    /\ heard.at = "opening"
    /\ found.called
    /\ found.doctors # <<>>

\* The content holds a booking link or is a booking message.
HasBookingLink(content) ==
    \/ \E j \in 1..Len(content) : content[j] = Head(DOCTOLIB_BASE_URL)
    \/ content # <<>> /\ Head(content) = Head(ConfirmText(<<>>, <<>>))

\* C15: in the booking confirmation wait, any non-empty answer that does not
\* contain "yes" returns the session to Idle, deletes current_doctor, appends
\* the decline acknowledgement and appends no message with a booking link.
C15_DeclineResetsWithoutLink ==
    [][(Answered("confirm") /\ ~HasAny(heard'.text, {KW_yes})) =>
          /\ pc' = "idle"
          /\ "current_doctor" \notin DOMAIN ss'
          /\ ~Get(ss', "awaiting_booking_confirmation", FALSE)
          /\ Appends(MSG_DECLINE)
          /\ \A i \in (Len(ss["messages"]) + 1)..Len(ss'["messages"]) :
                ~HasBookingLink(ss'["messages"][i].content)]_vars

\* C15 witness: the booking of a candidate was declined.
C15_Witness ==
    /\ pc = "idle"
    /\ heard.at = "confirm"
    /\ heard.kind = "text"
    /\ ~HasAny(heard.text, {KW_yes})
    /\ LastMessage = Msg("assistant", MSG_DECLINE)
    /\ "current_doctor" \notin DOMAIN ss

\* The step is an empty or None answer given at this prompt.
AnsweredEmpty(at) ==
    /\ pc = at
    /\ heard'.at = at
    /\ HeardEmpty(heard')

\* The step leaves the session waiting at the same prompt, with the same
\* candidate, cursor, selected provider and phase flags.
StaysWaiting ==
    /\ pc' = pc
    /\ SameKeys(PhaseKeys \cup {"current_doctor"})

\* C16: when the answer is empty or None during the choice wait or during
\* the booking confirmation wait, the session stays in that same state and
\* the same question is asked again; it never advances and never drops the
\* pending confirmation without a recognized answer.
C16_EmptyAnswerKeepsWaiting ==
    [][(AnsweredEmpty("choice") \/ AnsweredEmpty("confirm")) =>
          /\ StaysWaiting
          /\ ss'["messages"] = ss["messages"]]_vars

\* C17: in the choice wait, an answer matching neither keyword set appends
\* one clarification message and changes nothing else: the candidates, the
\* cursor, current_doctor and the phase flags are unchanged and the session
\* is still in the choice wait.
C17_UnclearOnlyClarifies ==
    [][(/\ Answered("choice")
        /\ ~HasAny(heard'.text, AdvanceKeywords)
        /\ ~HasAny(heard'.text, BookKeywords)) =>
          /\ ss'["messages"] = ss["messages"] \o
                 <<Msg("user", Strip(heard'.text)), Msg("assistant", MSG_UNCLEAR)>>
          /\ StaysWaiting
          /\ shown' = shown]_vars

\* C17 witness: an unclear answer was given on the second candidate.
C17_Witness ==
    /\ pc = "choice"
    /\ heard.at = "choice"
    /\ heard.kind = "text"
    /\ ~HasAny(heard.text, AdvanceKeywords \cup BookKeywords)
    /\ Strip(heard.text) # <<>>
    /\ LastMessage = Msg("assistant", MSG_UNCLEAR)
    /\ Cursor = 1

\* The step handles the answer as a request for the next candidate.
HandledAsAdvance ==
    /\ pc' # "confirm"
    /\ ~Appends(MSG_CONFIRM_PROMPT)
    /\ ~Appends(MSG_UNCLEAR)
    /\ \/ /\ pc' = "choice"
          /\ Get(ss', "current_doctor_index", 0) = Cursor + 1
       \/ Appends(MSG_NO_MORE)

\* The step handles the answer as the taking of the candidate.
HandledAsBook ==
    /\ pc' = "confirm"
    /\ Appends(MSG_CONFIRM_PROMPT)

\* C18: the choice is classified by case-insensitive substring matching with
\* fixed precedence: an answer containing "next", "other" or "option" is
\* handled as advance even when it also contains "like", "book" or "yes";
\* only an answer with no advance keyword can be handled as book.
C18_AdvanceKeywordsTakePrecedence ==
    [][Answered("choice") =>
          /\ HasAny(heard'.text, AdvanceKeywords) => HandledAsAdvance
          /\ HandledAsBook => (/\ ~HasAny(heard'.text, AdvanceKeywords)
                               /\ HasAny(heard'.text, BookKeywords))
          /\ (/\ HasAny(heard'.text, BookKeywords)
              /\ ~HasAny(heard'.text, AdvanceKeywords)) => HandledAsBook]_vars

\* C18 witness: an answer with a keyword of both sets, in mixed case, moved
\* the cursor to the second candidate.
C18_Witness ==
    /\ pc = "choice"
    /\ heard.at = "choice"
    /\ heard.kind = "text"
    /\ HasAny(heard.text, AdvanceKeywords)
    /\ HasAny(heard.text, BookKeywords)
    /\ heard.text # Lower(heard.text)
    /\ Cursor = 1

\* The step meets a failing gateway: ask_voice raises (speech synthesis or
\* capture), the extraction raises, or a directory lookup of the search fails.
GatewayFails ==
    /\ pc # "idle"
    /\ \/ heard'.kind = "raise"
       \/ llm = NoCompletion /\ llm'.kind = "raise"
       \/ /\ ~found.called
          /\ found'.called
          /\ calls' \cap DirectoryCalls # {}
          /\ "search_doctors" \notin calls'

\* Nothing is pending in the session: the next turn is a new request.
NothingPending(s) ==
    /\ ~Get(s, "awaiting_doctor_choice", FALSE)
    /\ ~Get(s, "ask_for_booking_confirmation", FALSE)
    /\ ~Get(s, "awaiting_booking_confirmation", FALSE)
    /\ Get(s, "Initialize", TRUE)

\* C19: a gateway failure at any point of a turn, the choice loop and the
\* confirmation prompt included, appends the generic assistant error message
\* and leaves the session in Idle: no choice wait or confirmation is pending
\* afterwards, and the next turn is handled as a new request.
C19_GatewayFailureEndsIdle ==
    [][GatewayFails =>
          /\ Appends(MSG_ERROR)
          /\ pc' = "idle"
          /\ NothingPending(ss')]_vars

\* The inputs of a turn that can succeed: a non-empty transcript, a valid
\* intent, and a search that returns at least one provider.
GoodTurns ==
    {t \in [h : OpeningHeard, completion : LLMOutputs, gw : Gateways(RawResponses)] :
        /\ t.h.kind = "text"
        /\ Truthy(speech_to_text(t.h))
        /\ t.completion.kind = "object"
        /\ extract_doctor_info(t.completion) # NoInfo
        /\ find_doctors(extract_doctor_info(t.completion), t.gw).doctors # <<>>}

\* The turn that these inputs make of the present state.
TurnOf(t) == Settle(OpeningStep(Hear(Machine, "opening", t.h), t.h, t.completion, t.gw))

\* The turn ends in the choice wait on a candidate of its own search and
\* appends no error message.
Recovers(m) ==
    /\ m.ctl = "choice"
    /\ m.found.called
    /\ \E i \in 1..Len(m.found.doctors) : m.shown = m.found.doctors[i]
    /\ m.ss["doctors"] = m.found.doctors
    /\ \A i \in (Len(ss["messages"]) + 1)..Len(m.ss["messages"]) :
          m.ss["messages"][i] # Msg("assistant", MSG_ERROR)

\* C20: every failure is recoverable by one new turn: from any state reached
\* after an error or after a completed or declined booking, a single new
\* turn with a non-empty transcript, a valid intent and a search returning
\* at least one provider ends in the choice wait presenting a candidate of
\* that search, without raising an error.
C20_OneTurnRecovers ==
    (pc = "opening" /\ Len(ss["messages"]) > 1) =>
        \A t \in GoodTurns : Recovers(TurnOf(t))

\* The number of assistant messages the step appends.
AssistantAppended ==
    Cardinality({i \in (Len(ss["messages"]) + 1)..Len(ss'["messages"]) :
                    ss'["messages"][i].role = "assistant"})

\* The step is a turn whose search returns no usable provider.
NoCandidatesTurn ==
    /\ pc = "opening"
    /\ found'.called
    /\ "search_doctors" \in calls'
    /\ found'.doctors = <<>>

\* The step is a "next" answer given on the last candidate.
NextAtLast ==
    /\ Answered("choice")
    /\ HasAny(heard'.text, AdvanceKeywords)
    /\ Cursor + 1 >= Len(Candidates)

\* The step ends a turn with an error: a raising gateway, a search without
\* candidates, or a "next" at the last candidate.
ErrorOutcome ==
    \/ pc # "idle" /\ heard'.kind = "raise"
    \/ llm = NoCompletion /\ llm'.kind = "raise"
    \/ NoCandidatesTurn
    \/ NextAtLast

\* C21: each error outcome of a turn appends exactly one assistant message;
\* in particular a search that returns no usable provider and a "next" at
\* the last candidate each add a single assistant message, not two.
C21_ErrorAppendsOneMessage ==
    [][ErrorOutcome => AssistantAppended = 1]_vars

\* C23: a candidate presented in a turn, or offered for booking, comes from
\* a search performed in that turn: no candidate list survives into a later
\* request.
C23_PresentedComesFromThisTurn ==
    /\ shown # NoDoctor =>
          /\ found.called
          /\ \E i \in 1..Len(found.doctors) : found.doctors[i] = shown
    /\ pc = "confirm" =>
          /\ found.called
          /\ \E i \in 1..Len(found.doctors) : found.doctors[i] = ss["current_doctor"].d

\* The first sequence is a prefix of the second.
IsPrefix(s, t) == Len(s) <= Len(t) /\ SubSeq(t, 1, Len(s)) = s

\* Every entry of messages has role user or assistant.
RolesAreUserOrAssistant(messages) ==
    \A i \in 1..Len(messages) : messages[i].role \in {"user", "assistant"}

\* C24: messages is append-only: in every step of every turn the previous
\* value of messages is a prefix of the new one, and every entry has role
\* user or assistant.
C24_MessagesAppendOnly ==
    [][/\ IsPrefix(ss["messages"], ss'["messages"])
       /\ RolesAreUserOrAssistant(ss'["messages"])]_vars

\* C24 witness: messages grew over a turn that failed and a turn that
\* reached the choice wait.
C24_Witness ==
    /\ pc = "choice"
    /\ Len(ss["messages"]) >= 4
    /\ \E i \in 1..Len(ss["messages"]) : ss["messages"][i] = Msg("assistant", MSG_ERROR)
    /\ \E i \in 1..Len(ss["messages"]) : ss["messages"][i].role = "user"

\* C25: starting a turn clears the transient fields: after the turn has
\* started, transcript and extracted_info hold no value of an earlier turn;
\* in particular, at the end of a turn whose transcript is empty,
\* extracted_info is not the intent of a previous turn.
C25_TurnStartClearsTransients ==
    /\ pc = "opening" =>
          /\ ~Truthy(ss["transcript"])
          /\ ss["extracted_info"] = NoInfo
    /\ (heard.at = "opening" /\ HeardEmpty(heard)) => ss["extracted_info"] = NoInfo

\* The value is None or empty after trimming.
EmptyAfterTrim(value) == value = None \/ Strip(value) = <<>>

\* C26: an extracted intent whose specialty or location is empty after
\* trimming is rejected: no directory gateway is called and the turn ends
\* in Idle.
C26_BlankFieldIsRejected ==
    (/\ llm.kind = "object"
     /\ \/ EmptyAfterTrim(llm.recommended_specialty)
        \/ EmptyAfterTrim(llm.location)) =>
        /\ calls \cap DirectoryCalls = {}
        /\ pc = "idle"

\* C29: the URL in the booking message emitted on confirmation is exactly
\* the fixed base URL concatenated with the link of the selected provider,
\* for every provider including one whose link is empty, and it equals
\* Doctor.booking_url of that provider.
C29_BookingUrlIsBasePlusLink ==
    [][(Answered("confirm") /\ HasAny(heard'.text, {KW_yes})) =>
          /\ booking_url(ss["current_doctor"].d)
                 = DOCTOLIB_BASE_URL \o ss["current_doctor"].d.link
          /\ Appends(ConfirmText(ss["current_doctor"].d.name,
                                 booking_url(ss["current_doctor"].d)))]_vars

\* The string has no leading or trailing whitespace and no newline.
IsNormalized(s) ==
    /\ Strip(s) = s
    /\ \A j \in 1..Len(s) : s[j] # "\n"

\* C28: every provider in candidates has a normalized specialty: no leading
\* or trailing whitespace and no newline character, for every specialty
\* value used in the search.
C28_SpecialtyIsNormalized ==
    \A i \in 1..Len(Candidates) : IsNormalized(Candidates[i].specialty)

\* What the end user is shown at the end of a step: the chat and the banners.
Visible(m) == [messages |-> m.ss["messages"], banner |-> m.banner]

\* The turn the handler makes of the present state when ask_voice raises an
\* exception with this text at the prompt the session is waiting at.
FailedStep(e) ==
    IF pc = "opening"
    THEN Settle(OpeningStep(Hear(Machine, "opening", Raising(e)), Raising(e),
                            NoCompletion, Answering([kind |-> "error"])))
    ELSE IF pc = "choice"
    THEN Settle(ChoiceStep(Hear(Machine, "choice", Raising(e)), Raising(e)))
    ELSE Settle(ConfirmStep(Hear(Machine, "confirm", Raising(e)), Raising(e)))

\* The banner shows the text of an exception.
ShowsExceptionText(text) ==
    \E e \in ExceptionTexts : \E j \in 1..Len(text) : <<text[j]>> = e

\* C22: with the debug flag off, what the end user is shown after a failure
\* does not depend on the raw exception text: two runs that differ only in
\* the text of the raised exception show the same chat messages and error
\* banners; raw exception detail is surfaced only with the debug flag on.
C22_ExceptionTextStaysHidden ==
    /\ (~debug_mode /\ pc # "idle") =>
          \A e1, e2 \in ExceptionTexts : Visible(FailedStep(e1)) = Visible(FailedStep(e2))
    /\ ~debug_mode =>
          \A i \in 1..Len(banner) : ~ShowsExceptionText(banner[i])

\* The completion is an object with specialty and location present.
HasBothFields(completion) ==
    /\ completion.kind = "object"
    /\ Truthy(completion.recommended_specialty)
    /\ Truthy(completion.location)

\* C27: for every extractor output with specialty and location present, the
\* gender of the resulting intent is one of None, "male", "female": a value
\* outside that set is replaced by None and the intent is still accepted,
\* while "male" and "female" pass through unchanged.
C27_GenderIsNormalized ==
    (pc # "pure" /\ HasBothFields(llm)) =>
        /\ ss["extracted_info"] # NoInfo
        /\ ss["extracted_info"].gender \in {None, S_male, S_female}
        /\ llm.gender \in {S_male, S_female} => ss["extracted_info"].gender = llm.gender
        /\ llm.gender \notin {S_male, S_female} => ss["extracted_info"].gender = None
        /\ ss["extracted_info"].recommended_specialty = llm.recommended_specialty
        /\ ss["extracted_info"].location = llm.location

\* C27 witness: a gender outside the set was replaced and the intent kept.
C27_Witness ==
    /\ pc = "extracted"
    /\ HasBothFields(llm)
    /\ llm.gender = <<"a", "n", "y">>
    /\ ss["extracted_info"] # NoInfo
    /\ ss["extracted_info"].gender = None

\* The two Doctors agree on id, name, specialty, languages and link, and so
\* on booking_url.
SameDoctor(d1, d2) ==
    /\ d1.id = d2.id
    /\ d1.name = d2.name
    /\ d1.specialty = d2.specialty
    /\ d1.languages = d2.languages
    /\ d1.link = d2.link
    /\ booking_url(d1) = booking_url(d2)

\* C30: for every Doctor d, Doctor.from_dict(d.to_dict()) has the same id,
\* name, specialty, languages and link (hence the same booking_url) as d;
\* and for every record r, to_dict(from_dict(r)) is a fixed point of a
\* further from_dict / to_dict round.
C30_DoctorRoundTrip ==
    /\ pc = "serialized" =>
          /\ SameDoctor(from_dict(found.ingested[1]), shown)
          /\ to_dict(from_dict(found.ingested[1])) = found.ingested[1]
    /\ \A i \in 1..Len(Candidates) :
          /\ SameDoctor(from_dict(to_dict(Candidates[i])), Candidates[i])
          /\ to_dict(from_dict(to_dict(Candidates[i]))) = to_dict(Candidates[i])

\* C30 witness: a Doctor built of a record with an int id and languages,
\* without the optional keys, was serialized.
C30_Witness ==
    /\ pc = "serialized"
    /\ "name" \notin DOMAIN raw[1]
    /\ "id" \in DOMAIN raw[1]
    /\ raw[1].id = IntId(8)
    /\ shown.id = Str(IntId(8))
    /\ found.ingested[1].languages = shown.languages

(***************************************************************************)
(* Capture resource, phase flags and selection at the turn boundary.       *)
(***************************************************************************)

\* C31: the recording flag is false whenever no turn is running (after a
\* normal end, an empty transcript, an exception of any gateway or a rerun)
\* and is true only while the pipeline of a turn is running.
C31_RecordingOnlyWhileRunning ==
    /\ pc = "idle" => ~ss["recording"]
    /\ pc # "idle" => ss["recording"]

\* C31 witness: a turn failed in the choice loop and the flag is released.
C31_Witness ==
    /\ pc = "idle"
    /\ heard.at = "choice"
    /\ heard.kind = "raise"
    /\ banner # <<>>
    /\ ~ss["recording"]

\* The handler is not waiting for an answer: neither flag that it reads to
\* resume a choice or to ask for the booking confirmation is set.
NotWaiting(s) ==
    /\ ~Get(s, "awaiting_doctor_choice", FALSE)
    /\ ~Get(s, "ask_for_booking_confirmation", FALSE)

\* C33: at the start of a turn in which neither a choice nor a booking
\* confirmation is waited for, a non-empty transcript with a valid extracted
\* intent causes a search in that same turn: no such request goes without
\* a search (and is answered with "couldn't understand" instead).
C33_ValidRequestIsSearched ==
    [][(NotWaiting(ss) /\ OpeningWithIntent) => found'.called]_vars

\* The number of phase flags that are set.
PhaseFlagsSet(s) ==
    Cardinality({k \in {"awaiting_doctor_choice", "ask_for_booking_confirmation",
                        "awaiting_booking_confirmation"} : Get(s, k, FALSE)})

\* C34: at a turn boundary at most one of awaiting_doctor_choice,
\* ask_for_booking_confirmation and awaiting_booking_confirmation is true.
C34_PhaseFlagsExclusive ==
    pc = "idle" => PhaseFlagsSet(ss) <= 1

\* C35: when the session is Idle at a turn boundary (no choice and no
\* confirmation is waited for) no provider is selected: current_doctor is
\* unset.
C35_IdleHasNoSelection ==
    (pc = "idle" /\ NotWaiting(ss)) => "current_doctor" \notin DOMAIN ss

\* The step is an opening in which a directory lookup of the search fails
\* (the specialty or the location is not resolved: network error, error
\* status or not found), so the provider search itself is never reached.
LookupFails ==
    /\ pc = "opening"
    /\ found'.called
    /\ calls' \cap DirectoryCalls # {}
    /\ "search_doctors" \notin calls'

\* C38: a failure of the search or resolve gateway calls is reported to the
\* user differently from a search with zero usable providers: the assistant
\* message appended after the failure is not the "I couldn't find any
\* matching doctors" message.
C38_FailureIsNotReportedAsNoCandidates ==
    [][LookupFails => ~Appends(MSG_NOT_FOUND)]_vars

(***************************************************************************)
(* Booking links, the choice loop and the order of the conversation.       *)
(***************************************************************************)

\* The messages with a booking link that the step appends.
BookingMessagesAppended ==
    {i \in (Len(ss["messages"]) + 1)..Len(ss'["messages"]) :
        /\ ss'["messages"][i].role = "assistant"
        /\ HasBookingLink(ss'["messages"][i].content)}

\* The last answer heard was a "book"-class answer of the choice loop.
BookAnswerGiven ==
    /\ heard.at = "choice"
    /\ heard.kind = "text"
    /\ HasAny(heard.text, BookKeywords)
    /\ ~HasAny(heard.text, AdvanceKeywords)

\* C36: a booking-link message is appended only in a turn where a candidate
\* was presented, then the user gave a "book"-class answer in the choice
\* loop, then a non-empty confirmation answer containing "yes"; the message
\* names candidates[candidateIndex] as it stood at the "book" answer, and it
\* is the only booking link of the turn (the turn ends with it).
C36_BookingOnlyAfterBookAndYes ==
    [][BookingMessagesAppended # {} =>
          /\ Cardinality(BookingMessagesAppended) = 1
          /\ pc = "confirm"
          /\ shown # NoDoctor
          /\ shown = At(Candidates, Cursor)
          /\ BookAnswerGiven
          /\ Answered("confirm")
          /\ HasAny(heard'.text, {KW_yes})
          /\ AppendsBookingMessageFor(At(Candidates, Cursor))
          /\ pc' = "idle"]_vars

\* C36 witness: the second candidate was presented, taken and confirmed, and
\* the turn ended with its booking message.
C36_Witness ==
    /\ pc = "idle"
    /\ heard.at = "confirm"
    /\ heard.kind = "text"
    /\ HasAny(heard.text, {KW_yes})
    /\ Cursor = 1
    /\ shown = At(Candidates, 1)
    /\ LastMessage.role = "assistant"
    /\ IsBookingMessageFor(LastMessage.content, At(Candidates, 1))

\* The number of candidates from the cursor to the end of the list.
CandidatesLeft == Len(Candidates) - Cursor

\* The k-th message from the end of the session (0 for the last one).
MessageFromEnd(k) == ss["messages"][Len(ss["messages"]) - k]

\* C37: the choice loop ends under recognized answers.  While it waits, the
\* cursor is inside the list; a "next"-class answer either exits the loop or
\* moves the cursor one step towards the end (so n - i such answers exit it),
\* a "book"-class answer exits it, and the loop continues without progress
\* only on an empty or unrecognized answer; every iteration is one blocking
\* ask_voice prompt of the choice loop.
C37_ChoiceLoopTerminates ==
    [][pc = "choice" =>
          /\ CandidatesLeft >= 1
          /\ heard'.at = "choice"
          /\ (Answered("choice") /\ HasAny(heard'.text, AdvanceKeywords)) =>
                \/ pc' # "choice"
                \/ /\ Candidates' = Candidates
                   /\ Cursor' = Cursor + 1
                   /\ CandidatesLeft' >= 1
          /\ (Answered("choice") /\ HasAny(heard'.text, AdvanceKeywords)
                /\ CandidatesLeft = 1) => pc' # "choice"
          /\ (Answered("choice") /\ HasAny(heard'.text, BookKeywords)
                /\ ~HasAny(heard'.text, AdvanceKeywords)) => pc' # "choice"
          /\ (pc' = "choice" /\ Cursor' # Cursor + 1) =>
                /\ heard'.kind # "raise"
                /\ \/ HeardEmpty(heard')
                   \/ ~HasAny(heard'.text, AdvanceKeywords \cup BookKeywords)
                /\ SameKeys({"doctors", "current_doctor_index"})]_vars

\* C37 witness: with two candidates and the cursor at the first, two "next"
\* answers in a row ended the loop.
C37_Witness ==
    /\ pc = "idle"
    /\ Len(Candidates) = 2
    /\ Len(ss["messages"]) >= 4
    /\ MessageFromEnd(1) = Msg("assistant", MSG_NO_MORE)
    /\ MessageFromEnd(2).role = "user"
    /\ HasAny(MessageFromEnd(2).content, AdvanceKeywords)
    /\ MessageFromEnd(3).role = "user"
    /\ HasAny(MessageFromEnd(3).content, AdvanceKeywords)

\* The messages the step appends, in order.
Appended ==
    SubSeq(ss'["messages"], Len(ss["messages"]) + 1, Len(ss'["messages"]))

\* The utterance heard in the step was recognized as a non-empty text.
Recognized ==
    /\ heard'.kind = "text"
    /\ Strip(heard'.text) # <<>>

\* C39: every non-empty recognized utterance (opening transcript, choice
\* answer, confirmation answer) is appended to messages exactly once with
\* role user, at the end of the list and before every assistant message of
\* the step that hears it; an empty or None utterance appends no user
\* message, and no user message is appended without an utterance.
C39_UtteranceLoggedOnceInOrder ==
    [][/\ IsPrefix(ss["messages"], ss'["messages"])
       /\ pc = "idle" => Appended = <<>>
       /\ (pc # "idle" /\ Recognized) =>
             /\ Appended # <<>>
             /\ Head(Appended) = Msg("user", Strip(heard'.text))
             /\ \A i \in 2..Len(Appended) : Appended[i].role = "assistant"
       /\ (pc # "idle" /\ ~Recognized) =>
             \A i \in 1..Len(Appended) : Appended[i].role = "assistant"]_vars

\* C39 witness: the opening request, the choice answer and the confirmation
\* answer of one turn are in messages in the order they were spoken, each
\* before the assistant message that reacts to it.
C39_Witness ==
    /\ pc = "idle"
    /\ Len(ss["messages"]) = 6
    /\ ss["messages"][2].role = "user"
    /\ ss["messages"][3].role = "user"
    /\ HasAny(ss["messages"][3].content, BookKeywords)
    /\ ss["messages"][4] = Msg("assistant", MSG_CONFIRM_PROMPT)
    /\ ss["messages"][5].role = "user"
    /\ ss["messages"][5].content = Strip(heard.text)
    /\ ss["messages"][6].role = "assistant"
    /\ ss["messages"][2].content # ss["messages"][5].content

(***************************************************************************)
(* The coordinates of the map.                                             *)
(***************************************************************************)

\* The location has both flat coordinates.
FlatComplete(l) == "lat" \in DOMAIN l /\ "lng" \in DOMAIN l

\* The location has a gpsPoint dictionary with both coordinates.
PointComplete(l) ==
    /\ "gpsPoint" \in DOMAIN l
    /\ IsDict(l.gpsPoint)
    /\ "lat" \in DOMAIN l.gpsPoint
    /\ "lng" \in DOMAIN l.gpsPoint

\* The location has a viewport dictionary with both corners complete.
BoxComplete(l) ==
    /\ "viewport" \in DOMAIN l
    /\ IsDict(l.viewport)
    /\ "northeast" \in DOMAIN l.viewport
    /\ "southwest" \in DOMAIN l.viewport
    /\ \A corner \in {"northeast", "southwest"} :
          "lat" \in DOMAIN l.viewport[corner] /\ "lng" \in DOMAIN l.viewport[corner]

\* The map was drawn from a record with a non-empty location.
Located ==
    /\ pc = "located"
    /\ "location" \in DOMAIN raw[1]
    /\ raw[1].location # <<>>

\* C32: extract_coordinates follows the precedence flat > point > box: it
\* returns the flat lat/lng when both are present, otherwise the gpsPoint
\* when it has both, otherwise the midpoint of the viewport's northeast and
\* southwest corners (twice the midpoint is the sum of the corners),
\* otherwise None; a lower source is never used when a higher is complete.
C32_CoordinatePrecedence ==
    Located =>
        LET l == raw[1].location
        IN  /\ FlatComplete(l) =>
                  coords = Point(float(l.lat), float(l.lng))
            /\ (~FlatComplete(l) /\ PointComplete(l)) =>
                  coords = Point(float(l.gpsPoint.lat), float(l.gpsPoint.lng))
            /\ (~FlatComplete(l) /\ ~PointComplete(l) /\ BoxComplete(l)) =>
                  /\ coords # NoCoordinates
                  /\ coords.lat + coords.lat
                       = float(l.viewport.northeast.lat) + float(l.viewport.southwest.lat)
                  /\ coords.lng + coords.lng
                       = float(l.viewport.northeast.lng) + float(l.viewport.southwest.lng)
            /\ (~FlatComplete(l) /\ ~PointComplete(l) /\ ~BoxComplete(l)) =>
                  coords = NoCoordinates

\* C32 witness: the flat source is incomplete, the gpsPoint and the viewport
\* are both complete, and the gpsPoint was returned.
C32_Witness ==
    /\ Located
    /\ "lat" \in DOMAIN raw[1].location
    /\ ~FlatComplete(raw[1].location)
    /\ PointComplete(raw[1].location)
    /\ BoxComplete(raw[1].location)
    /\ coords = Point(float(raw[1].location.gpsPoint.lat),
                      float(raw[1].location.gpsPoint.lng))

====
